---- MODULE Spec2Model ----
(***************************************************************************)
(* Varifold curvature estimator of DGtalTest: RadialDistance (the radial   *)
(* kernel), projection, computeLocalCurvature, computeVarifolds and the    *)
(* sign-correction pass of main.                                           *)
(*                                                                         *)
(* The program computes in double; the model computes in exact real        *)
(* arithmetic.  A real is a finite rational combination of the monomials   *)
(* sqrt(r) * pi^k (r squarefree), which is closed under every operation    *)
(* the estimator performs on grid positions, and on which equality and     *)
(* sign are decidable.  IEEE's 0/0 is kept as the value NaN.               *)
(***************************************************************************)
EXTENDS Integers, Sequences, FiniteSets, TLC

----------------------------------------------------------------------------
(* Rationals: [n, d] with d > 0 and gcd(n, d) = 1.                          *)

AbsInt(x) == IF x < 0 THEN -x ELSE x

RECURSIVE Gcd(_, _)
Gcd(a, b) == IF b = 0 THEN a ELSE Gcd(b, a % b)

Rat(n, d) ==
    LET g == Gcd(AbsInt(n), AbsInt(d))
        s == IF d < 0 THEN -1 ELSE 1
    IN  [n |-> s * (n \div g), d |-> s * (d \div g)]

RZero == [n |-> 0, d |-> 1]
ROne == [n |-> 1, d |-> 1]
RInt(i) == [n |-> i, d |-> 1]
RAdd(a, b) == Rat(a.n * b.d + b.n * a.d, a.d * b.d)
RNeg(a) == [n |-> -a.n, d |-> a.d]
RSub(a, b) == RAdd(a, RNeg(b))
RMul(a, b) == Rat(a.n * b.n, a.d * b.d)
RInv(a) == Rat(a.d, a.n)
RDiv(a, b) == RMul(a, RInv(b))
RLess(a, b) == a.n * b.d < b.n * a.d
RLeq(a, b) == a.n * b.d <= b.n * a.d

----------------------------------------------------------------------------
(* Exact reals: a function from monomial keys <<r, k>> (standing for        *)
(* sqrt(r) * pi^k, r squarefree) to non-zero rational coefficients.  The   *)
(* monomials are linearly independent over the rationals, so two reals are *)
(* equal exactly when their representations are.                           *)

SZero == [m \in {} |-> RZero]
SCoef(s, m) == IF m \in DOMAIN s THEN s[m] ELSE RZero
SClean(s) == [m \in {x \in DOMAIN s : s[x].n # 0} |-> s[m]]
SMono(r, k, q) == IF q.n = 0 THEN SZero ELSE [m \in {<<r, k>>} |-> q]
SRat(q) == SMono(1, 0, q)
SInt(i) == SRat(RInt(i))
SOne == SInt(1)
SAdd(a, b) ==
    SClean([m \in (DOMAIN a) \cup (DOMAIN b) |-> RAdd(SCoef(a, m), SCoef(b, m))])
SNeg(a) == [m \in DOMAIN a |-> RNeg(a[m])]
SSub(a, b) == SAdd(a, SNeg(b))
SScale(q, a) == IF q.n = 0 THEN SZero ELSE [m \in DOMAIN a |-> RMul(q, a[m])]

\* sqrt(r1) pi^k1 * sqrt(r2) pi^k2 = g * sqrt(r1 r2 / g^2) * pi^(k1+k2), g = gcd(r1, r2)
MonoMul(m1, q1, m2, q2) ==
    LET g == Gcd(m1[1], m2[1])
    IN  SMono((m1[1] * m2[1]) \div (g * g), m1[2] + m2[2],
              RMul(RMul(q1, q2), RInt(g)))

RECURSIVE SMulPairs(_, _, _)
SMulPairs(a, b, pairs) ==
    IF pairs = {} THEN SZero
    ELSE LET p == CHOOSE x \in pairs : TRUE
         IN  SAdd(MonoMul(p[1], a[p[1]], p[2], b[p[2]]),
                  SMulPairs(a, b, pairs \ {p}))

SMul(a, b) == SMulPairs(a, b, (DOMAIN a) \X (DOMAIN b))

IsMono(a) == Cardinality(DOMAIN a) = 1
\* 1 / (q sqrt(r) pi^k) = (1 / (q r)) sqrt(r) pi^(-k)
MonoInv(a) ==
    LET m == CHOOSE x \in DOMAIN a : TRUE
    IN  SMono(m[1], -m[2], RInv(RMul(a[m], RInt(m[1]))))

\* floor(sqrt(n)) by bisection on lo..hi, lo^2 <= n < (hi+1)^2; 46340 is
\* floor(sqrt(2^31 - 1)), the largest root of a machine integer
RECURSIVE ISqrtIn(_, _, _)
ISqrtIn(n, lo, hi) ==
    IF lo >= hi THEN lo
    ELSE LET mid == (lo + hi + 1) \div 2
         IN  IF mid * mid <= n THEN ISqrtIn(n, mid, hi) ELSE ISqrtIn(n, lo, mid - 1)
ISqrt(n) == ISqrtIn(n, 0, IF n < 46340 THEN n ELSE 46340)

\* the largest s with s^2 dividing n (n > 0)
SquarePart(n) == CHOOSE s \in 1..n :
    /\ n % (s * s) = 0
    /\ \A t \in (s + 1)..n : n % (t * t) # 0

\* sqrt(n) for a natural n, as s * sqrt(n / s^2)
SSqrt(n) ==
    IF n = 0 THEN SZero
    ELSE LET s == SquarePart(n) IN SMono(n \div (s * s), 0, RInt(s))

Lcm(a, b) == (a * b) \div Gcd(a, b)

RECURSIVE LcmOver(_, _)
LcmOver(f, S) ==
    IF S = {} THEN 1
    ELSE LET x == CHOOSE y \in S : TRUE IN Lcm(f[x].d, LcmOver(f, S \ {x}))

RECURSIVE IntSumOver(_, _)
IntSumOver(f, S) ==
    IF S = {} THEN 0
    ELSE LET x == CHOOSE y \in S : TRUE IN f[x] + IntSumOver(f, S \ {x})

\* Integer bounds of D * scale * sum(q_m sqrt(r_m)), D the common denominator
\* of the coefficients: floor(sqrt(r) * scale) <= sqrt(r) * scale <= that + 1.
SqrtFloor(r, scale) == ISqrt(r * scale * scale)
SqrtCeil(r, scale) ==
    LET f == ISqrt(r * scale * scale)
    IN  IF f * f = r * scale * scale THEN f ELSE f + 1
SBoundLo(a, scale) ==
    LET D == LcmOver(a, DOMAIN a)
        c == [m \in DOMAIN a |-> a[m].n * (D \div a[m].d)]
    IN  IntSumOver([m \in DOMAIN a |->
            c[m] * (IF c[m] > 0 THEN SqrtFloor(m[1], scale) ELSE SqrtCeil(m[1], scale))],
            DOMAIN a)
SBoundHi(a, scale) ==
    LET D == LcmOver(a, DOMAIN a)
        c == [m \in DOMAIN a |-> a[m].n * (D \div a[m].d)]
    IN  IntSumOver([m \in DOMAIN a |->
            c[m] * (IF c[m] > 0 THEN SqrtCeil(m[1], scale) ELSE SqrtFloor(m[1], scale))],
            DOMAIN a)

RECURSIVE SSignAt(_, _, _)
SSignAt(a, scale, fuel) ==
    IF SBoundLo(a, scale) > 0 THEN 1
    ELSE IF SBoundHi(a, scale) < 0 THEN -1
    ELSE IF fuel = 0 THEN 2
    ELSE SSignAt(a, scale * 8, fuel - 1)

\* The sign of a real: -1, 0 or 1.  When the monomials all carry the same
\* power of pi that power is a positive factor and the sign is that of the
\* sum of square roots, found by refining rational bounds (a non-zero real
\* has a non-zero sum).  2: not decided (mixed powers of pi, or a sum closer
\* to 0 than the finest resolution); the estimator produces neither.
SSign(a) ==
    IF DOMAIN a = {} THEN 0
    ELSE IF \A m \in DOMAIN a : a[m].n > 0 THEN 1
    ELSE IF \A m \in DOMAIN a : a[m].n < 0 THEN -1
    ELSE IF \E m1, m2 \in DOMAIN a : m1[2] # m2[2] THEN 2
    ELSE SSignAt(a, 1, 3)

SLess(a, b) == SSign(SSub(b, a)) = 1

----------------------------------------------------------------------------
(* double values: a finite real v / den (den = 1 unless a division by a    *)
(* sum of several monomials was left standing), or IEEE's NaN or infinity. *)

XFin(s) == [k |-> "fin", v |-> s, den |-> SOne]
XNaN == [k |-> "nan", v |-> SZero, den |-> SOne]
XInf == [k |-> "inf", v |-> SZero, den |-> SOne]
XZero == XFin(SZero)
XInt(i) == XFin(SInt(i))
XRat(q) == XFin(SRat(q))
XQuot(num, den) ==
    IF num = SZero THEN XZero
    ELSE IF IsMono(den) THEN XFin(SMul(num, MonoInv(den)))
    ELSE [k |-> "fin", v |-> num, den |-> den]
XAdd(x, y) ==
    IF x.k = "nan" \/ y.k = "nan" THEN XNaN
    ELSE IF x.k = "inf" \/ y.k = "inf" THEN XInf
    ELSE IF x.den = y.den THEN XQuot(SAdd(x.v, y.v), x.den)
    ELSE XQuot(SAdd(SMul(x.v, y.den), SMul(y.v, x.den)), SMul(x.den, y.den))
XNeg(x) == [x EXCEPT !.v = SNeg(x.v)]
XMul(x, y) ==
    IF x.k = "nan" \/ y.k = "nan" THEN XNaN
    ELSE IF x.k = "inf" \/ y.k = "inf"
         THEN (IF (x.k = "fin" /\ x.v = SZero) \/ (y.k = "fin" /\ y.v = SZero)
               THEN XNaN ELSE XInf)
    ELSE XQuot(SMul(x.v, y.v), SMul(x.den, y.den))
\* x / y as IEEE divides: 0/0 is NaN, a non-zero value over 0 is infinite
XDiv(x, y) ==
    IF x.k = "nan" \/ y.k = "nan" THEN XNaN
    ELSE IF x.k = "inf" THEN (IF y.k = "inf" THEN XNaN ELSE XInf)
    ELSE IF y.k = "inf" THEN XZero
    ELSE IF y.v = SZero THEN (IF x.v = SZero THEN XNaN ELSE XInf)
    ELSE XQuot(SMul(x.v, y.den), SMul(x.den, y.v))
\* -1, 0, 1 for a finite value
XSign(x) == SSign(x.v) * SSign(x.den)
\* x > 0 and x < y as IEEE compares: false when an operand is NaN
XPositive(x) == x.k = "fin" /\ XSign(x) = 1
XLess(x, y) == x.k = "fin" /\ y.k = "fin" /\ XSign(XAdd(y, XNeg(x))) = 1

(* RealPoint / RealVector: triples.  Positions and normals are integer     *)
(* triples (grid units); computed vectors are triples of double values.    *)
Axes == 1..3
Dot(u, w) == u[1] * w[1] + u[2] * w[2] + u[3] * w[3]
VecSub(u, w) == <<u[1] - w[1], u[2] - w[2], u[3] - w[3]>>
VecNorm(u) == XFin(SSqrt(Dot(u, u)))
XVecZero == <<XZero, XZero, XZero>>
XVecAdd(u, w) == <<XAdd(u[1], w[1]), XAdd(u[2], w[2]), XAdd(u[3], w[3])>>
XVecNeg(u) == <<XNeg(u[1]), XNeg(u[2]), XNeg(u[3])>>
XVecScale(x, u) == <<XMul(x, u[1]), XMul(x, u[2]), XMul(x, u[3])>>
XVecDiv(u, x) == <<XDiv(u[1], x), XDiv(u[2], x), XDiv(u[3], x)>>

----------------------------------------------------------------------------
(* RadialDistance                                                          *)

DistributionTypes == {"FlatDisc", "Cone", "HalfSphere"}

\* pi^k with a rational coefficient
PiPow(q, k) == XFin(SMono(1, k, q))

\* measureFunction with the cone's profile as (t - 1) pi/12
measureFunctionConeReversed(distribution, dRatio) ==
    CASE distribution = "FlatDisc" -> XDiv(XInt(3), PiPow(RInt(4), 1))
      [] distribution = "Cone" ->
            XMul(XAdd(dRatio, XNeg(XInt(1))), PiPow(Rat(1, 12), 1))
      [] distribution = "HalfSphere" ->
            XDiv(XAdd(XInt(1), XNeg(XMul(dRatio, dRatio))), PiPow(RInt(2), 1))

measureFunction(distribution, dRatio) ==
    CASE distribution = "FlatDisc" -> XDiv(XInt(3), PiPow(RInt(4), 1))
      [] distribution = "Cone" ->
            XMul(XAdd(XInt(1), XNeg(dRatio)), PiPow(Rat(1, 12), 1))
      [] distribution = "HalfSphere" ->
            XDiv(XAdd(XInt(1), XNeg(XMul(dRatio, dRatio))), PiPow(RInt(2), 1))

\* measureFunctionDerivate with the half-sphere's slope halved
measureFunctionDerivateHalved(distribution, dRatio) ==
    CASE distribution = "FlatDisc" -> XInt(0)
      [] distribution = "Cone" -> PiPow(Rat(-1, 12), 1)
      [] distribution = "HalfSphere" -> XDiv(XNeg(dRatio), PiPow(RInt(2), 1))

measureFunctionDerivate(distribution, dRatio) ==
    CASE distribution = "FlatDisc" -> XInt(0)
      [] distribution = "Cone" -> PiPow(Rat(-1, 12), 1)
      [] distribution = "HalfSphere" -> XDiv(XNeg(dRatio), PiPow(ROne, 1))

\* RadialDistance keeping the centre of the default constructor
RadialDistanceAtOrigin(center, radius, distribution) ==
    [center |-> <<0, 0, 0>>, radius |-> radius, distribution |-> distribution]

RadialDistance(center, radius, distribution) ==
    [center |-> center, radius |-> radius, distribution |-> distribution]

\* InsideRadius with the tie d == radius let in
InsideOrOnRadius(d, radius) == ~XLess(radius, d)

\* is the face inside the radius
InsideRadius(d, radius) == XLess(d, radius)

\* operator(): one (weight, derivative) pair per position of mesh
Weigh(rd, b) ==
    LET d == VecNorm(VecSub(b, rd.center))
    IN  IF InsideRadius(d, rd.radius)
        THEN [first |-> measureFunction(rd.distribution, XDiv(d, rd.radius)),
              second |-> measureFunctionDerivate(rd.distribution, XDiv(d, rd.radius))]
        ELSE [first |-> XInt(0), second |-> XInt(0)]

RadialDistanceApply(rd, mesh) == [i \in 1..Len(mesh) |-> Weigh(rd, mesh[i])]

----------------------------------------------------------------------------
(* projection                                                              *)

\* projection onto the normal's line instead of the plane orthogonal to it
projectionOntoNormal(toProject, planeNormal) ==
    LET ratio == XDiv(XInt(Dot(toProject, planeNormal)),
                      XInt(Dot(planeNormal, planeNormal)))
    IN  [i \in Axes |-> XMul(XInt(planeNormal[i]), ratio)]

projection(toProject, planeNormal) ==
    LET ratio == XDiv(XInt(Dot(toProject, planeNormal)),
                      XInt(Dot(planeNormal, planeNormal)))
    IN  [i \in Axes |-> XAdd(XInt(toProject[i]),
                             XNeg(XMul(XInt(planeNormal[i]), ratio)))]

----------------------------------------------------------------------------
(* The inputs of main: the primal surface mesh as the mesh library hands   *)
(* it over (face centroids and normals, vertex positions and normals, the  *)
(* integral-invariant normals of the surfels), the radius and the kernel.  *)

Methods == {"TrivialNormalFaceCentroid", "DualNormalFaceCentroid",
            "CorrectedNormalFaceCentroid"}
\* the order in which main runs the methods
MethodOrder == <<"TrivialNormalFaceCentroid", "DualNormalFaceCentroid",
                 "CorrectedNormalFaceCentroid">>

Up == <<0, 0, 1>>

\* five coplanar faces in a plus shape, four coplanar vertices
PlusPatch ==
    [faceCentroid |-> << <<0, 0, 0>>, <<1, 0, 0>>, <<0, 1, 0>>, <<-1, 0, 0>>, <<0, -1, 0>> >>,
     faceNormal |-> <<Up, Up, Up, Up, Up>>,
     iiNormal |-> <<Up, Up, Up, Up, Up>>,
     position |-> << <<0, 0, 0>>, <<1, 0, 0>>, <<0, 1, 0>>, <<1, 1, 0>> >>,
     vertexNormal |-> <<Up, Up, Up, Up>>]

\* two faces one unit apart, three vertices two units apart
PairPatch ==
    [faceCentroid |-> << <<0, 0, 0>>, <<1, 0, 0>> >>,
     faceNormal |-> <<Up, Up>>,
     iiNormal |-> << <<0, 1, 1>>, <<1, 0, 2>> >>,
     position |-> << <<0, 0, 0>>, <<2, 0, 0>>, <<0, 2, 0>> >>,
     vertexNormal |-> << <<1, 1, 1>>, <<1, 0, 1>>, <<0, 1, 1>> >>]

\* the three faces around a cube corner and the four vertices next to it
CornerPatch ==
    [faceCentroid |-> << <<1, 1, 0>>, <<1, 0, 1>>, <<0, 1, 1>> >>,
     faceNormal |-> << <<0, 0, -1>>, <<0, -1, 0>>, <<-1, 0, 0>> >>,
     iiNormal |-> << <<-1, -1, -2>>, <<-1, -2, -1>>, <<-2, -1, -1>> >>,
     position |-> << <<0, 0, 0>>, <<2, 0, 0>>, <<0, 2, 0>>, <<0, 0, 2>> >>,
     vertexNormal |-> << <<-1, -1, -1>>, <<0, -1, -1>>, <<-1, 0, -1>>, <<-1, -1, 0>> >>]

\* a degenerate mesh: two faces, and two vertices, at the same place
DegeneratePatch ==
    [faceCentroid |-> << <<0, 0, 0>>, <<0, 0, 0>>, <<1, 0, 0>> >>,
     faceNormal |-> <<Up, <<0, 1, 0>>, Up>>,
     iiNormal |-> <<Up, <<0, 1, 0>>, Up>>,
     position |-> << <<1, 1, 0>>, <<1, 1, 0>> >>,
     vertexNormal |-> <<Up, Up>>]

Surfaces == {PlusPatch, PairPatch, CornerPatch, DegeneratePatch}

\* the radii main can be given, in halves: -1/2, 0, 1/2, ..., MaxRadiusHalves/2
MaxRadiusHalves == 4
Radii == {XRat(Rat(h, 2)) : h \in (-1)..MaxRadiusHalves}

----------------------------------------------------------------------------
VARIABLES
    surface,        \* main: the primal surface mesh
    radius,         \* main: radius
    distribType,    \* main: distribType
    mi,             \* main: the position of m in MethodOrder
    pc,             \* where the program is
    positions,      \* computeLocalCurvature: positions
    normals,        \* computeLocalCurvature: normals
    nbElements,     \* computeLocalCurvature: nbElements
    f,              \* computeLocalCurvature: f (from 1)
    otherF,         \* computeLocalCurvature: otherF (from 1)
    rd,             \* computeLocalCurvature: rd
    weights,        \* computeLocalCurvature: weights
    tmpSumTop,      \* computeLocalCurvature: tmpSumTop
    tmpSumBottom,   \* computeLocalCurvature: tmpSumBottom
    curvatures,     \* computeLocalCurvature: curvatures
    varifolds,      \* main: varifolds
    lcsNorm,        \* main: lcsNorm
    i,              \* main: i of the sign-correction loops (from 1)
    sums,           \* main: the value of sum at the end of each iteration i
    vertexInclusion,\* the mesh's vertexInclusionRatio(position(i), 1, f), by i and f
    facesInBall     \* the mesh's computeFacesInclusionsInBall(1, i), by i

estimatorVars == <<positions, normals, nbElements, f, otherF, rd, weights,
                   tmpSumTop, tmpSumBottom, curvatures>>
signVars == <<lcsNorm, i, sums, vertexInclusion, facesInBall>>
inputVars == <<surface, radius, distribType>>
vars == <<surface, radius, distribType, mi, pc, positions, normals, nbElements,
          f, otherF, rd, weights, tmpSumTop, tmpSumBottom, curvatures, varifolds,
          lcsNorm, i, sums, vertexInclusion, facesInBall>>

NoRd == RadialDistance(<<0, 0, 0>>, XInt(1), "FlatDisc")

\* computeLocalCurvature's locals as declared, before the switch
EstimatorIdle ==
    /\ positions = <<>>
    /\ normals = <<>>
    /\ nbElements = 0
    /\ f = 0
    /\ otherF = 0
    /\ rd = NoRd
    /\ weights = <<>>
    /\ tmpSumTop = XVecZero
    /\ tmpSumBottom = XZero
    /\ curvatures = <<>>

\* the locals of a fresh call of computeLocalCurvature
ResetEstimator ==
    /\ positions' = <<>>
    /\ normals' = <<>>
    /\ nbElements' = 0
    /\ f' = 0
    /\ otherF' = 0
    /\ rd' = NoRd
    /\ weights' = <<>>
    /\ tmpSumTop' = XVecZero
    /\ tmpSumBottom' = XZero
    /\ curvatures' = <<>>

SignIdle ==
    /\ lcsNorm = <<>>
    /\ i = 0
    /\ sums = <<>>
    /\ vertexInclusion = <<>>
    /\ facesInBall = <<>>

Init ==
    /\ surface \in Surfaces
    /\ radius \in Radii
    /\ distribType \in DistributionTypes
    /\ mi = 1
    /\ pc = "main"
    /\ EstimatorIdle
    /\ varifolds = <<>>
    /\ SignIdle

----------------------------------------------------------------------------
(* computeLocalCurvature                                                   *)

\* the switch on method: the sample population
NbElements(mesh, method) ==
    IF method = "DualNormalFaceCentroid" THEN Len(mesh.position)
    ELSE Len(mesh.faceCentroid)
SamplePositions(mesh, method) ==
    IF method = "DualNormalFaceCentroid"
    THEN [v \in 1..Len(mesh.position) |-> mesh.position[v]]
    ELSE [g \in 1..Len(mesh.faceCentroid) |-> mesh.faceCentroid[g]]
SampleNormals(mesh, method) ==
    CASE method = "TrivialNormalFaceCentroid" ->
            [g \in 1..Len(mesh.faceCentroid) |-> mesh.faceNormal[g]]
      [] method = "DualNormalFaceCentroid" ->
            [v \in 1..Len(mesh.position) |-> mesh.vertexNormal[v]]
      [] method = "CorrectedNormalFaceCentroid" -> mesh.iiNormal

\* Accumulate with the denominator fed by the other samples only
AccumulateOthersOnly(top, bottom, fIdx, g, w, pos, nrm) ==
    IF XPositive(w[g].first) /\ fIdx # g
    THEN LET tmpVector == VecSub(pos[g], pos[fIdx])
         IN  [top |-> XVecAdd(top,
                          XVecDiv(XVecScale(w[g].first, projection(tmpVector, nrm[g])),
                                  VecNorm(tmpVector))),
              bottom |-> XAdd(bottom, w[g].first)]
    ELSE [top |-> top, bottom |-> bottom]

\* Accumulate projecting on the plane of the centre sample's own normal
AccumulateOwnNormal(top, bottom, fIdx, g, w, pos, nrm) ==
    IF XPositive(w[g].first)
    THEN [top |-> IF fIdx # g
                  THEN LET tmpVector == VecSub(pos[g], pos[fIdx])
                       IN  XVecAdd(top,
                               XVecDiv(XVecScale(w[g].first,
                                                 projection(tmpVector, nrm[fIdx])),
                                       VecNorm(tmpVector)))
                  ELSE top,
          bottom |-> XAdd(bottom, w[g].first)]
    ELSE [top |-> top, bottom |-> bottom]

\* one pass of the loop over otherF: the sums after sample g
Accumulate(top, bottom, fIdx, g, w, pos, nrm) ==
    IF XPositive(w[g].first)
    THEN [top |-> IF fIdx # g
                  THEN LET tmpVector == VecSub(pos[g], pos[fIdx])
                       IN  XVecAdd(top,
                               XVecDiv(XVecScale(w[g].first,
                                                 projection(tmpVector, nrm[g])),
                                       VecNorm(tmpVector)))
                  ELSE top,
          bottom |-> XAdd(bottom, w[g].first)]
    ELSE [top |-> top, bottom |-> bottom]

\* the value pushed for a sample
LocalCurvature(top, bottom, cRadius) ==
    XVecDiv(XVecNeg(top), XMul(bottom, cRadius))

\* the loop over otherF run from 1 to upTo on zeroed sums
RECURSIVE AccumulateUpTo(_, _, _, _, _)
AccumulateUpTo(fIdx, upTo, w, pos, nrm) ==
    IF upTo = 0 THEN [top |-> XVecZero, bottom |-> XZero]
    ELSE LET prev == AccumulateUpTo(fIdx, upTo - 1, w, pos, nrm)
         IN  Accumulate(prev.top, prev.bottom, fIdx, upTo, w, pos, nrm)

\* one pass of the loop over f: the curvature pushed for sample fIdx
CurvatureOfSample(fIdx, pos, nrm, cRadius, cDistribType) ==
    LET w == RadialDistanceApply(RadialDistance(pos[fIdx], cRadius, cDistribType), pos)
        acc == AccumulateUpTo(fIdx, Len(pos), w, pos, nrm)
    IN  LocalCurvature(acc.top, acc.bottom, cRadius)

\* main calls computeVarifolds, which calls computeLocalCurvature: the
\* switch on method fills positions and normals
CallComputeVarifolds ==
    /\ pc = "main"
    /\ positions' = SamplePositions(surface, MethodOrder[mi])
    /\ normals' = SampleNormals(surface, MethodOrder[mi])
    /\ nbElements' = NbElements(surface, MethodOrder[mi])
    /\ f' = 1
    /\ pc' = "outer"
    /\ UNCHANGED <<otherF, rd, weights, tmpSumTop, tmpSumBottom, curvatures>>
    /\ UNCHANGED <<inputVars, mi, varifolds, signVars>>

\* the head of the loop over f: the kernel centred on sample f, its weights
BeginSample ==
    /\ pc = "outer"
    /\ f <= nbElements
    /\ tmpSumTop' = XVecZero
    /\ tmpSumBottom' = XZero
    /\ rd' = RadialDistance(positions[f], radius, distribType)
    /\ weights' = RadialDistanceApply(rd', positions)
    /\ otherF' = 1
    /\ pc' = "inner"
    /\ UNCHANGED <<positions, normals, nbElements, f, curvatures>>
    /\ UNCHANGED <<inputVars, mi, varifolds, signVars>>

InnerStep ==
    /\ pc = "inner"
    /\ otherF <= nbElements
    /\ LET acc == Accumulate(tmpSumTop, tmpSumBottom, f, otherF, weights,
                             positions, normals)
       IN  /\ tmpSumTop' = acc.top
           /\ tmpSumBottom' = acc.bottom
    /\ otherF' = otherF + 1
    /\ UNCHANGED <<positions, normals, nbElements, f, rd, weights, curvatures, pc>>
    /\ UNCHANGED <<inputVars, mi, varifolds, signVars>>

EndSample ==
    /\ pc = "inner"
    /\ otherF > nbElements
    /\ curvatures' = Append(curvatures, LocalCurvature(tmpSumTop, tmpSumBottom, radius))
    /\ f' = f + 1
    /\ pc' = "outer"
    /\ UNCHANGED <<positions, normals, nbElements, otherF, rd, weights,
                   tmpSumTop, tmpSumBottom>>
    /\ UNCHANGED <<inputVars, mi, varifolds, signVars>>

----------------------------------------------------------------------------
(* computeVarifolds                                                        *)

Varifold(position, planeNormal, curvature) ==
    [position |-> position, planeNormal |-> planeNormal, curvature |-> curvature]

\* FaceMethodNormals with the geometric face normals for both face methods
FaceNormalsAlways(mesh, method) == mesh.faceNormal

\* the normals computeVarifolds reads for the two face methods
FaceMethodNormals(mesh, method) ==
    IF method = "CorrectedNormalFaceCentroid" THEN mesh.iiNormal ELSE mesh.faceNormal

\* the switch on method of computeVarifolds, over the returned curvatures
BuildVarifolds(mesh, method, cs) ==
    IF method = "DualNormalFaceCentroid"
    THEN [v \in 1..Len(mesh.position) |->
            Varifold(mesh.position[v], mesh.vertexNormal[v], cs[v])]
    ELSE [g \in 1..Len(mesh.faceCentroid) |->
            Varifold(mesh.faceCentroid[g], FaceMethodNormals(mesh, method)[g], cs[g])]

\* computeLocalCurvature returns; computeVarifolds builds the varifolds
ReturnVarifolds ==
    /\ pc = "outer"
    /\ f > nbElements
    /\ varifolds' = BuildVarifolds(surface, MethodOrder[mi], curvatures)
    /\ pc' = "built"
    /\ UNCHANGED <<estimatorVars, inputVars, mi, signVars>>

\* the rest of main's loop body reads varifolds only; the next method starts
\* from fresh locals
NextMethod ==
    /\ pc = "built"
    /\ IF mi < Len(MethodOrder)
       THEN mi' = mi + 1 /\ pc' = "main"
       ELSE mi' = mi /\ pc' = "done"
    /\ ResetEstimator
    /\ varifolds' = <<>>
    /\ UNCHANGED <<inputVars, signVars>>

Next ==
    \/ CallComputeVarifolds
    \/ BeginSample
    \/ InnerStep
    \/ EndSample
    \/ ReturnVarifolds
    \/ NextMethod

Spec == Init /\ [][Next]_vars

----------------------------------------------------------------------------
(* The sign-correction pass of main's loop body, over the varifolds of one *)
(* method.  The curvature vectors here have integer components and an      *)
(* integer norm, so that the signed norms and their sums are integers; the *)
(* mesh's two neighbourhood queries are inputs.  Inclusion ratios are kept *)
(* in halves: 0 is 0.0, 1 is 0.5, 2 is 1.0.                                *)

MaxMagnitude == 2
NumSignSamples == 2

SignSamples == 1..NumSignSamples
SignCurvatures == {<<0, 0, c>> : c \in (-MaxMagnitude)..MaxMagnitude} \cup {<<3, 4, 0>>}
SignNormals == {Up, <<1, 0, 0>>}
SignPairs == {p \in SignSamples \X SignSamples : p[1] < p[2]}
RatioOf(pattern, a, b) ==
    IF a = b THEN 2 ELSE IF a < b THEN pattern[<<a, b>>] ELSE pattern[<<b, a>>]

\* vertexInclusionRatio(position(a), 1, b): 1.0 or 0.0, 1.0 for the vertex itself
VertexInclusionTables ==
    {[a \in SignSamples |-> [b \in SignSamples |-> RatioOf(pattern, a, b)]] :
        pattern \in [SignPairs -> {0, 2}]}

\* computeFacesInclusionsInBall(1, a): the (face, ratio) pairs, from face a
\* itself (whose centroid is the centre of the ball, ratio 1.0) outwards
RECURSIVE BallFrom(_, _, _)
BallFrom(pattern, a, b) ==
    IF b > NumSignSamples THEN <<>>
    ELSE IF b = a THEN BallFrom(pattern, a, b + 1)
    ELSE <<[first |-> b, second |-> RatioOf(pattern, a, b)]>> \o BallFrom(pattern, a, b + 1)
FacesInBallTables ==
    {[a \in SignSamples |-> <<[first |-> a, second |-> 2]>> \o BallFrom(pattern, a, 1)] :
        pattern \in [SignPairs -> {0, 1, 2}]}

NoSurface ==
    [faceCentroid |-> <<>>, faceNormal |-> <<>>, iiNormal |-> <<>>,
     position |-> <<>>, vertexNormal |-> <<>>]

SignInit ==
    /\ surface = NoSurface
    /\ radius = XInt(1)
    /\ distribType = "HalfSphere"
    /\ mi \in 1..Len(MethodOrder)
    /\ pc = "naive"
    /\ EstimatorIdle
    /\ varifolds \in [SignSamples ->
            {Varifold(<<0, 0, 0>>, n, c) : n \in SignNormals, c \in SignCurvatures}]
    /\ lcsNorm = <<>>
    /\ i = 0
    /\ sums = <<>>
    /\ IF MethodOrder[mi] = "DualNormalFaceCentroid"
       THEN vertexInclusion \in VertexInclusionTables /\ facesInBall = <<>>
       ELSE vertexInclusion = <<>> /\ facesInBall \in FacesInBallTables

\* RealVector::norm of a vector whose norm is an integer
IntNorm(u) == ISqrt(Dot(u, u))

\* one element of lcsNorm as first filled
NaiveSigned(vf) ==
    IF Dot(vf.planeNormal, vf.curvature) > 0
    THEN IntNorm(vf.curvature)
    ELSE -IntNorm(vf.curvature)

\* the vertex branch's loop over g: sum after vertices 1..upTo
RECURSIVE VertexSum(_, _, _, _)
VertexSum(idx, upTo, ls, incl) ==
    IF upTo = 0 THEN 0
    ELSE VertexSum(idx, upTo - 1, ls, incl)
         + (IF upTo # idx /\ incl[idx][upTo] > 0 THEN ls[upTo] ELSE 0)

\* the face branch's loop over the pairs of the ball: sum after the first upTo
RECURSIVE FaceSum(_, _, _)
FaceSum(upTo, ls, ball) ==
    IF upTo = 0 THEN 0
    ELSE FaceSum(upTo - 1, ls, ball)
         + (IF ball[upTo].second > 0 THEN ls[ball[upTo].first] ELSE 0)

\* CorrectedSigned without the absolute value
CorrectedSignedNoAbs(value, sum) == value * (IF sum < 0 THEN -1 ELSE 1)

\* the value written back to lcsNorm[i]
CorrectedSigned(value, sum) == AbsInt(value) * (IF sum < 0 THEN -1 ELSE 1)

ComputeNaive ==
    /\ pc = "naive"
    /\ lcsNorm' = [j \in 1..Len(varifolds) |-> NaiveSigned(varifolds[j])]
    /\ i' = 1
    /\ pc' = "correct"
    /\ UNCHANGED <<sums, vertexInclusion, facesInBall>>
    /\ UNCHANGED <<inputVars, mi, varifolds, estimatorVars>>

CorrectVertex ==
    /\ pc = "correct"
    /\ MethodOrder[mi] = "DualNormalFaceCentroid"
    /\ i <= Len(varifolds)
    /\ LET sum == VertexSum(i, Len(varifolds), lcsNorm, vertexInclusion)
       IN  /\ lcsNorm' = [lcsNorm EXCEPT ![i] = CorrectedSigned(lcsNorm[i], sum)]
           /\ sums' = Append(sums, sum)
    /\ i' = i + 1
    /\ UNCHANGED <<pc, vertexInclusion, facesInBall>>
    /\ UNCHANGED <<inputVars, mi, varifolds, estimatorVars>>

CorrectFace ==
    /\ pc = "correct"
    /\ MethodOrder[mi] # "DualNormalFaceCentroid"
    /\ i <= Len(varifolds)
    /\ LET sum == FaceSum(Len(facesInBall[i]), lcsNorm, facesInBall[i])
       IN  /\ lcsNorm' = [lcsNorm EXCEPT ![i] = CorrectedSigned(lcsNorm[i], sum)]
           /\ sums' = Append(sums, sum)
    /\ i' = i + 1
    /\ UNCHANGED <<pc, vertexInclusion, facesInBall>>
    /\ UNCHANGED <<inputVars, mi, varifolds, estimatorVars>>

\* the loop over i is over: main goes on to the colour map
FinishCorrection ==
    /\ pc = "correct"
    /\ i > Len(varifolds)
    /\ pc' = "corrected"
    /\ UNCHANGED <<lcsNorm, i, sums, vertexInclusion, facesInBall>>
    /\ UNCHANGED <<inputVars, mi, varifolds, estimatorVars>>

SignNext ==
    \/ ComputeNaive
    \/ CorrectVertex
    \/ CorrectFace
    \/ FinishCorrection

SignSpec == SignInit /\ [][SignNext]_vars

----------------------------------------------------------------------------
(* Properties of the estimator (under Spec)                                *)

Method == MethodOrder[mi]
\* the radius as a rational (main's radii are rational)
RadiusQ == SCoef(radius.v, <<1, 0>>)
SqDist(a, b) == Dot(VecSub(a, b), VecSub(a, b))
\* |a - b| < radius, decided on the squares
InBall(a, b) ==
    /\ RadiusQ.n > 0
    /\ SqDist(a, b) * RadiusQ.d * RadiusQ.d < RadiusQ.n * RadiusQ.n
\* |a - b| = radius
OnSphere(a, b) ==
    /\ RadiusQ.n > 0
    /\ SqDist(a, b) * RadiusQ.d * RadiusQ.d = RadiusQ.n * RadiusQ.n
\* the samples whose curvature has been pushed
Finished == 1..Len(curvatures)
\* the kernel weights of all samples seen from sample c
KernelWeights(c) ==
    RadialDistanceApply(RadialDistance(positions[c], radius, distribType), positions)
IsFiniteVec(u) == \A a \in Axes : u[a].k = "fin"

\* w * proj(position[g] - b, normal[g]) / |position[g] - b|
ContributionOf(c, g, w) ==
    XVecDiv(XVecScale(w, projection(VecSub(positions[g], positions[c]), normals[g])),
            VecNorm(VecSub(positions[g], positions[c])))

RECURSIVE NumeratorOver(_, _, _)
NumeratorOver(c, S, w) ==
    IF S = {} THEN XVecZero
    ELSE LET g == CHOOSE x \in S : TRUE
         IN  XVecAdd(IF g # c /\ XPositive(w[g].first)
                     THEN ContributionOf(c, g, w[g].first) ELSE XVecZero,
                     NumeratorOver(c, S \ {g}, w))

RECURSIVE DenominatorOver(_, _)
DenominatorOver(S, w) ==
    IF S = {} THEN XZero
    ELSE LET g == CHOOSE x \in S : TRUE
         IN  XAdd(IF XPositive(w[g].first) THEN w[g].first ELSE XZero,
                  DenominatorOver(S \ {g}, w))

\* C1: while the loop over otherF runs, tmpSumTop and tmpSumBottom are the sums
\* over the samples g passed so far of, respectively, w * proj(position[g] - b,
\* normal[g]) / |position[g] - b| for g != f with w > 0, and w for every g with
\* w > 0 (g = f included); and the curvature stored for a sample is
\* -numerator / (denominator * R) of the sums over all samples.
C1_Accumulation ==
    /\ pc = "inner" =>
        /\ tmpSumTop = NumeratorOver(f, 1..(otherF - 1), weights)
        /\ tmpSumBottom = DenominatorOver(1..(otherF - 1), weights)
    /\ \A c \in Finished :
        curvatures[c] =
            XVecDiv(XVecNeg(NumeratorOver(c, 1..nbElements, KernelWeights(c))),
                    XMul(DenominatorOver(1..nbElements, KernelWeights(c)), radius))

\* a sample is finished that had a sample outside its ball, another sample
\* inside it, and a non-zero curvature
C1_Witness ==
    /\ pc = "outer"
    /\ \E c \in Finished :
        /\ \E g \in 1..nbElements : ~XPositive(KernelWeights(c)[g].first)
        /\ \E g \in 1..nbElements : g # c /\ XPositive(KernelWeights(c)[g].first)
        /\ IsFiniteVec(curvatures[c])
        /\ curvatures[c] # XVecZero

\* C2: the weights computed for sample f hold one (weight, derivative) pair per
\* position, in the order of the positions; the pair is (0, 0) for a position
\* at distance d >= radius from the centre (d = radius included), and the
\* kernel profile and its derivative at d / radius for a position with
\* d < radius.
C2_OnePairPerPosition ==
    pc = "inner" =>
        /\ Len(weights) = Len(positions)
        /\ \A g \in 1..Len(positions) :
            IF InBall(positions[g], positions[f])
            THEN /\ weights[g].first =
                        measureFunction(distribType,
                            XDiv(VecNorm(VecSub(positions[g], positions[f])), radius))
                 /\ weights[g].second =
                        measureFunctionDerivate(distribType,
                            XDiv(VecNorm(VecSub(positions[g], positions[f])), radius))
            ELSE weights[g] = [first |-> XZero, second |-> XZero]

\* the weights of a sample are computed with one position exactly on the
\* sphere and another strictly inside
C2_Witness ==
    /\ pc = "inner"
    /\ \E g \in 1..nbElements : OnSphere(positions[g], positions[f])
    /\ \E g \in 1..nbElements : g # f /\ InBall(positions[g], positions[f])

\* C3 (as claimed): with a radius > 0 under which no other sample is inside the
\* ball of sample c, the estimator does not return the zero vector for c as an
\* ordinary result.
C3_DegenerateNeighborhoodSignalled ==
    \A c \in Finished :
        (/\ RadiusQ.n > 0
         /\ nbElements >= 2
         /\ \A g \in 1..nbElements : g # c => ~InBall(positions[g], positions[c]))
        => curvatures[c] # XVecZero

C5_InvalidRadiusRejected ==
    RadiusQ.n <= 0 =>
        /\ rd = NoRd
        /\ weights = <<>>
        /\ curvatures = <<>>
        /\ varifolds = <<>>

\* all normals identical, all positions in one plane orthogonal to them
IsFlat ==
    /\ nbElements >= 1
    /\ \A g \in 1..nbElements : normals[g] = normals[1]
    /\ \A g \in 1..nbElements : Dot(VecSub(positions[g], positions[1]), normals[1]) = 0
PairwiseDistinct == \A g, h \in 1..nbElements : g # h => positions[g] # positions[h]
\* the samples inside the ball of c mirror each other through c
SymmetricBall(c) ==
    \A g \in 1..nbElements :
        InBall(positions[g], positions[c]) =>
            \E h \in 1..nbElements :
                VecSub(positions[h], positions[c]) = VecSub(positions[c], positions[g])
\* the spec's scenario: the five faces of PlusPatch, radius 1.5, flat disc
PlusScenario ==
    /\ surface = PlusPatch
    /\ Method = "TrivialNormalFaceCentroid"
    /\ radius = XRat(Rat(3, 2))
    /\ distribType = "FlatDisc"
\* (1 + sqrt(2)) / 6
OuterMagnitude == XFin(SAdd(SRat(Rat(1, 6)), SMono(2, 0, Rat(1, 6))))

\* C6 (as claimed): on a flat sample set, with a radius > 0, every sample's
\* curvature is (0, 0, 0).
C6_FlatIsZeroEverywhere ==
    \A c \in Finished : (IsFlat /\ RadiusQ.n > 0) => curvatures[c] = XVecZero

\* C6 (amended): on a flat set of pairwise distinct samples, with a radius > 0,
\* every curvature is finite with no component along the common normal, and is
\* (0, 0, 0) for a sample whose ball holds a mirror image of each of its
\* samples; in the spec's scenario the central sample gets (0, 0, 0) and each
\* outer sample p gets ((1 + sqrt(2)) / 6) * p.
C6_FlatIsTangentialAndZeroWhenSymmetric ==
    /\ \A c \in Finished :
        (IsFlat /\ PairwiseDistinct /\ RadiusQ.n > 0) =>
            /\ IsFiniteVec(curvatures[c])
            /\ XAdd(XAdd(XMul(XInt(normals[1][1]), curvatures[c][1]),
                         XMul(XInt(normals[1][2]), curvatures[c][2])),
                    XMul(XInt(normals[1][3]), curvatures[c][3])) = XZero
            /\ SymmetricBall(c) => curvatures[c] = XVecZero
    /\ \A c \in Finished :
        PlusScenario =>
            curvatures[c] = XVecScale(OuterMagnitude,
                                      <<XInt(positions[c][1]), XInt(positions[c][2]),
                                        XInt(positions[c][3])>>)

\* the spec's scenario has run to its end: the outer samples have a curvature
\* that is not zero, the central one has zero
C6_Witness ==
    /\ pc = "built"
    /\ PlusScenario
    /\ curvatures[1] = XVecZero
    /\ \A c \in 2..5 : curvatures[c] # XVecZero

\* C7: when computeVarifolds returns, there is one curvature and one varifold
\* per sample of the method's population (the faces, or the vertices for
\* DualNormalFaceCentroid), and varifold j holds the position and the normal
\* the estimator used for sample j and the curvature it pushed j-th.
C7_IndexAligned ==
    pc = "built" =>
        /\ Len(curvatures) = (IF Method = "DualNormalFaceCentroid"
                              THEN Len(surface.position) ELSE Len(surface.faceCentroid))
        /\ Len(varifolds) = Len(curvatures)
        /\ Len(positions) = Len(curvatures)
        /\ Len(normals) = Len(curvatures)
        /\ \A j \in 1..Len(varifolds) :
            /\ varifolds[j].position = positions[j]
            /\ varifolds[j].planeNormal = normals[j]
            /\ varifolds[j].curvature = curvatures[j]

\* the varifolds of the corrected-normal method are built on a mesh whose
\* integral-invariant normals differ from its face normals
C7_Witness ==
    /\ pc = "built"
    /\ Method = "CorrectedNormalFaceCentroid"
    /\ Len(varifolds) >= 2
    /\ \E j \in 1..Len(varifolds) : surface.iiNormal[j] # surface.faceNormal[j]

----------------------------------------------------------------------------
(* Properties of the sign-correction pass (under SignSpec)                 *)

\* the samples whose sign has been corrected
Corrected == 1..Len(sums)
\* |u| for a vector with an integer norm
NormOf(u) == CHOOSE k \in 0..Dot(u, u) : k * k = Dot(u, u)
\* +|curvature| if normal . curvature > 0, -|curvature| otherwise
NaiveOf(j) ==
    IF Dot(varifolds[j].planeNormal, varifolds[j].curvature) > 0
    THEN NormOf(varifolds[j].curvature)
    ELSE -NormOf(varifolds[j].curvature)
\* the inclusion ratio (in halves) the mesh gives k in the 1-ring of j
RingRatio(j, k) ==
    IF Method = "DualNormalFaceCentroid" THEN vertexInclusion[j][k]
    ELSE LET hits == {e \in 1..Len(facesInBall[j]) : facesInBall[j][e].first = k}
         IN  IF hits = {} THEN 0 ELSE facesInBall[j][CHOOSE e \in hits : TRUE].second

RECURSIVE SumOverSamples(_, _)
SumOverSamples(value, S) ==
    IF S = {} THEN 0
    ELSE LET k == CHOOSE x \in S : TRUE IN value[k] + SumOverSamples(value, S \ {k})

\* the sum of the naive signed values of the other samples the mesh puts in
\* the 1-ring of j with a ratio > 0
NeighbourSum(j) ==
    SumOverSamples([k \in 1..Len(varifolds) |-> NaiveOf(k)],
        {k \in 1..Len(varifolds) : k # j /\ RingRatio(j, k) > 0})

\* C8 (as claimed): once sample j is corrected, lcsNorm[j] has the magnitude
\* of its naive signed value (+|curvature| if normal . curvature > 0 and
\* -|curvature| otherwise), with the sign - if the sum over the qualifying
\* 1-ring neighbours of j is < 0 and + otherwise (a sum of 0 gives +).
C8_SignFromNeighbourSum ==
    pc \in {"correct", "corrected"} =>
        \A j \in Corrected :
            lcsNorm[j] = (IF NeighbourSum(j) < 0
                          THEN -AbsInt(NaiveOf(j)) ELSE AbsInt(NaiveOf(j)))

\* What lines 316, 327 and 337 give, in terms of the sum the pass accumulated
\* for j: a corrected lcsNorm[j] has the magnitude of its naive signed value,
\* with the sign - if that sum is < 0 and + otherwise; a sample not yet
\* corrected holds its naive signed value.
C8_MagnitudeKeptSignFromSum ==
    pc \in {"correct", "corrected"} =>
        \A j \in 1..Len(varifolds) :
            IF j \in Corrected
            THEN lcsNorm[j] = (IF sums[j] < 0 THEN -AbsInt(NaiveOf(j)) ELSE AbsInt(NaiveOf(j)))
            ELSE lcsNorm[j] = NaiveOf(j)

\* the pass is over; a negative sum turned a positive naive value negative
C8_Witness ==
    /\ pc = "corrected"
    /\ \E j \in Corrected : NaiveOf(j) > 0 /\ sums[j] < 0 /\ lcsNorm[j] < 0

\* C9 (as claimed): the sum accumulated for the sample just corrected is the
\* sum of the signed values of the other samples of its 1-ring with a ratio
\* > 0: its own value is not in it.
C9_OwnValueNotInVote ==
    (pc = "correct" /\ i > 1) =>
        sums[i - 1] =
            SumOverSamples(lcsNorm,
                {k \in 1..Len(varifolds) : k # i - 1 /\ RingRatio(i - 1, k) > 0})

\* C10 (as claimed): the sum accumulated for the sample just corrected is the
\* sum of ratio * signed value over the entries the pass went through (both
\* sides doubled, the ratios being in halves).
C10_VoteWeightedByRatio ==
    (pc = "correct" /\ i > 1) =>
        2 * sums[i - 1] =
            SumOverSamples(
                [k \in 1..Len(varifolds) |->
                    RingRatio(i - 1, k) * (IF k = i - 1 THEN NaiveOf(k) ELSE lcsNorm[k])],
                {k \in 1..Len(varifolds) :
                    k # i - 1 \/ Method # "DualNormalFaceCentroid"})

\* the sum of the naive signed values over the entries the pass goes through
\* for j: the vertices other than j with a ratio > 0, or the faces of the ball
\* of j with a ratio > 0
NaiveVote(j) ==
    SumOverSamples([k \in 1..Len(varifolds) |-> NaiveOf(k)],
        {k \in 1..Len(varifolds) :
            /\ RingRatio(j, k) > 0
            /\ (k # j \/ Method # "DualNormalFaceCentroid")})

\* C11 (as claimed): the corrected value of every sample is a function of the
\* naive signed values alone: its magnitude with the sign of the sum of the
\* naive values of the entries gone through, whatever was already corrected
\* at lower indices.
C11_PureInNaiveValues ==
    pc = "corrected" =>
        \A j \in 1..Len(varifolds) :
            lcsNorm[j] = (IF NaiveVote(j) < 0
                          THEN -AbsInt(NaiveOf(j)) ELSE AbsInt(NaiveOf(j)))

\* sample j has no qualifying 1-ring neighbour
NoQualifyingNeighbour(j) ==
    \A k \in 1..Len(varifolds) : k # j => RingRatio(j, k) = 0

\* C12 (as claimed): a corrected sample with no qualifying 1-ring neighbour
\* holds its naive signed value.
C12_NoNeighbourKeepsNaive ==
    pc \in {"correct", "corrected"} =>
        \A j \in Corrected : NoQualifyingNeighbour(j) => lcsNorm[j] = NaiveOf(j)

\* every naive signed value already has the sign its neighbours vote
ConsistentInput ==
    \A j \in 1..Len(varifolds) :
        NaiveOf(j) = (IF NeighbourSum(j) < 0
                      THEN -AbsInt(NaiveOf(j)) ELSE AbsInt(NaiveOf(j)))

----------------------------------------------------------------------------
(* Relational properties of the estimator (under Spec)                     *)

\* normals to put in the place of a sample's own
OtherNormals == {<<1, 0, 0>>, <<0, 1, 0>>, <<1, 1, 1>>, <<0, 0, -1>>}

\* C14: the curvature returned for sample c is the one the estimator computes
\* from the same positions, radius and kernel and from normals that differ
\* only in the normal of c itself, whatever that normal is.
C14_OwnNormalNotUsed ==
    pc = "built" =>
        \A c \in 1..nbElements : \A n \in OtherNormals :
            CurvatureOfSample(c, positions, [normals EXCEPT ![c] = n],
                              radius, distribType) = curvatures[c]

\* a run is over in which a sample has a finite, non-zero curvature and a
\* neighbour inside its ball with a normal other than its own
C14_Witness ==
    /\ pc = "built"
    /\ \E c \in 1..nbElements :
        /\ IsFiniteVec(curvatures[c])
        /\ curvatures[c] # XVecZero
        /\ \E g \in 1..nbElements :
            g # c /\ InBall(positions[g], positions[c]) /\ normals[g] # normals[c]

----------------------------------------------------------------------------
(* The kernel profiles in closed form (under Spec)                         *)

Pi == SMono(1, 1, ROne)
InvPi == SMono(1, -1, ROne)
\* t = |a - b| / radius, and its square, for a radius > 0
RatioT(a, b) == SScale(RInv(RadiusQ), SSqrt(SqDist(a, b)))
RatioTSquared(a, b) == SRat(RDiv(RInt(SqDist(a, b)), RMul(RadiusQ, RadiusQ)))

\* 3/(4 pi); (1 - t) pi/12; (1 - t^2)/(2 pi)
ClosedWeight(kind, a, b) ==
    CASE kind = "FlatDisc" -> SScale(Rat(3, 4), InvPi)
      [] kind = "Cone" -> SSub(SScale(Rat(1, 12), Pi),
                               SScale(Rat(1, 12), SMul(RatioT(a, b), Pi)))
      [] kind = "HalfSphere" ->
            SScale(Rat(1, 2), SMul(SSub(SOne, RatioTSquared(a, b)), InvPi))
\* 0; -pi/12; -t/pi
ClosedDerivative(kind, a, b) ==
    CASE kind = "FlatDisc" -> SZero
      [] kind = "Cone" -> SScale(Rat(-1, 12), Pi)
      [] kind = "HalfSphere" -> SNeg(SMul(RatioT(a, b), InvPi))

\* C15: for a position at t = d / radius in [0, 1) of the centre, the pair the
\* kernel returns is exactly (3/(4 pi), 0) for the flat disc, ((1 - t) pi/12,
\* -pi/12) for the cone and ((1 - t^2)/(2 pi), -t/pi) for the half sphere.
C15_ClosedForms ==
    pc = "inner" =>
        \A g \in 1..nbElements :
            InBall(positions[g], positions[f]) =>
                /\ weights[g].first = XFin(ClosedWeight(distribType, positions[g], positions[f]))
                /\ weights[g].second =
                        XFin(ClosedDerivative(distribType, positions[g], positions[f]))

\* half-sphere weights are computed with a sample at an irrational t in (0, 1)
\* and with one at a rational t in (0, 1)
C15_Witness ==
    /\ pc = "inner"
    /\ distribType = "HalfSphere"
    /\ \E g \in 1..nbElements :
        InBall(positions[g], positions[f]) /\ SqDist(positions[g], positions[f]) = 2
    /\ \E g \in 1..nbElements :
        InBall(positions[g], positions[f]) /\ SqDist(positions[g], positions[f]) = 1

\* C16: every weight the kernel returns, for a position inside the ball or
\* not, is a finite value >= 0.
C16_WeightsNonNegative ==
    pc = "inner" =>
        \A g \in 1..Len(weights) :
            /\ weights[g].first.k = "fin"
            /\ XSign(weights[g].first) \in {0, 1}

\* cone weights are computed with a sample outside the ball (weight 0) and
\* another sample inside it, at t > 0
C16_Witness ==
    /\ pc = "inner"
    /\ distribType = "Cone"
    /\ \E g \in 1..nbElements : weights[g].first = XZero
    /\ \E g \in 1..nbElements :
        /\ positions[g] # positions[f]
        /\ InBall(positions[g], positions[f])
        /\ XPositive(weights[g].first)

----------------------------------------------------------------------------
(* Rigid motions of the inputs (under Spec)                                *)

VecAdd(u, w) == <<u[1] + w[1], u[2] + w[2], u[3] + w[3]>>
Translations == {<<1, 0, 0>>, <<-2, 3, 5>>}
\* quarter turns about z and about x, and the turn by a third about (1, 1, 1)
Rotations == {"quarterZ", "quarterX", "thirdDiagonal"}
Rotate(rot, u) ==
    CASE rot = "quarterZ" -> <<-u[2], u[1], u[3]>>
      [] rot = "quarterX" -> <<u[1], -u[3], u[2]>>
      [] rot = "thirdDiagonal" -> <<u[3], u[1], u[2]>>
\* the same rotations on a computed vector
RotateX(rot, u) ==
    CASE rot = "quarterZ" -> <<XNeg(u[2]), u[1], u[3]>>
      [] rot = "quarterX" -> <<u[1], XNeg(u[3]), u[2]>>
      [] rot = "thirdDiagonal" -> <<u[3], u[1], u[2]>>

\* C17: the curvature the estimator computes for sample c from the positions
\* all moved by one translation is the curvature returned for c, and the one
\* it computes from the positions and the normals all turned by one rotation
\* is the curvature returned for c turned by that rotation.
C17_RigidMotion ==
    pc = "built" =>
        \A c \in 1..nbElements :
            /\ \A t \in Translations :
                CurvatureOfSample(c, [g \in 1..nbElements |-> VecAdd(positions[g], t)],
                                  normals, radius, distribType) = curvatures[c]
            /\ \A rot \in Rotations :
                CurvatureOfSample(c, [g \in 1..nbElements |-> Rotate(rot, positions[g])],
                                  [g \in 1..nbElements |-> Rotate(rot, normals[g])],
                                  radius, distribType)
                    = RotateX(rot, curvatures[c])

\* a run is over in which a sample's curvature is finite and is changed by
\* the quarter turn about z
C17_Witness ==
    /\ pc = "built"
    /\ \E c \in 1..nbElements :
        /\ IsFiniteVec(curvatures[c])
        /\ RotateX("quarterZ", curvatures[c]) # curvatures[c]
        /\ \E g \in 1..nbElements : g # c /\ normals[g] # normals[c]

----------------------------------------------------------------------------
(* The exhaustive scan against the neighbourhood query (under Spec)        *)

\* query(position[c], radius): the samples at a distance < radius of sample c
Query(c) == {g \in 1..nbElements : InBall(positions[g], positions[c])}

\* C18: with a radius > 0, the samples with a weight > 0, which are those the
\* denominator takes, are exactly the samples at a distance < radius of the
\* centre, and the curvature returned for a sample is the one accumulated over
\* those samples alone.
C18_ScanEqualsQuery ==
    /\ (pc = "inner" /\ RadiusQ.n > 0) =>
        /\ \A g \in 1..nbElements :
            XPositive(weights[g].first) <=> g \in Query(f)
        /\ tmpSumTop = NumeratorOver(f, Query(f) \cap 1..(otherF - 1), weights)
        /\ tmpSumBottom = DenominatorOver(Query(f) \cap 1..(otherF - 1), weights)
    /\ \A c \in Finished :
        RadiusQ.n > 0 =>
            curvatures[c] =
                XVecDiv(XVecNeg(NumeratorOver(c, Query(c), KernelWeights(c))),
                        XMul(DenominatorOver(Query(c), KernelWeights(c)), radius))

\* a sample is finished that had a sample exactly on its sphere, another
\* strictly inside its ball, and a finite curvature
C18_Witness ==
    /\ pc = "outer"
    /\ RadiusQ.n > 0
    /\ \E c \in Finished :
        /\ \E g \in 1..nbElements : OnSphere(positions[g], positions[c])
        /\ \E g \in Query(c) : g # c
        /\ IsFiniteVec(curvatures[c])

\* C19: with a radius > 0, the weight of sample f itself is > 0, and when the
\* loop over the samples is over, i.e. when the division is done, the
\* denominator is finite and > 0, for each kernel; a denominator of 0 at that
\* point goes with a radius <= 0.
C19_DenominatorPositive ==
    /\ (pc = "inner" /\ RadiusQ.n > 0) => XPositive(weights[f].first)
    /\ (pc = "inner" /\ otherF > nbElements) =>
        /\ RadiusQ.n > 0 => XPositive(tmpSumBottom)
        /\ tmpSumBottom = XZero => RadiusQ.n <= 0

\* the division is about to be done, with a radius > 0, for a sample alone in
\* its ball among several samples
C19_Witness ==
    /\ pc = "inner"
    /\ otherF > nbElements
    /\ nbElements >= 2
    /\ RadiusQ.n > 0
    /\ Query(f) = {f}
    /\ tmpSumBottom = weights[f].first

====
